---- MODULE Spec2Model ----
(***************************************************************************)
(* Edit-history tracking engine of the BDD extension (EditTracker) and the *)
(* panel handler that restores a history entry.                            *)
(*                                                                         *)
(* Text content is a string.  A file of the history root is modelled by    *)
(* what JSON.parse makes of its bytes: a HistoryFile object with an        *)
(* entries array ("history"), an object without an entries array           *)
(* ("noentries"), or bytes that do not parse ("garbage", told apart by a   *)
(* blob number).  The file system calls that can fail or be cut short by a *)
(* crash take their outcome from the io argument of each operation.        *)
(***************************************************************************)
EXTENDS Integers, Sequences, FiniteSets, TLC

\* ---------------------------------------------------------------- constants
MAX_ENTRIES_PER_FILE == 50
MAX_DIFF_LINES == 50

\* ------------------------------------------------------------------- bounds
MaxOps == 2
MaxBlobs == 2

\* ------------------------------------------------------------------ domains
Paths == {"a.feature", "sub/b.feature"}
Contents == {"", "a"}
Ids == {"1f0e3dad", "9b2c7a10"}
Times == {0}
NoTag == "null"

HistoryRoot == ".edit_history"

\* path.dirname of the record of an artifact, relative to the workspace
RecordDir(p) ==
  CASE p = "a.feature" -> HistoryRoot
    [] p = "sub/b.feature" -> HistoryRoot \o "/sub"
    [] OTHER -> HistoryRoot

\* getHistoryFilePath that drops the relative path: one record for all
getHistoryFilePath_OneRecord(p) == HistoryRoot \o "/" \o ".history.json"

getHistoryFilePath(p) == HistoryRoot \o "/" \o p \o ".history.json"

BackupPath(historyPath) == historyPath \o ".bak"

HistoryFiles ==
  {getHistoryFilePath(p) : p \in Paths}
    \cup {BackupPath(getHistoryFilePath(p)) : p \in Paths}

\* ----------------------------------------------------------------- hashing
Sha256Hex(c) ==
  CASE c = "" -> "e3b0c44298fc1c149afbf4c8996fb92427ae41e4649b934ca495991b7852b855"
    [] c = "a" -> "ca978112ca1bbdcafac231b39a23dc4da786eff8147c4e72b9807785afee48bb"
    [] c = "restore" -> "f329e3a317eee6a8a1a7357f69bc0488e0fad238ad58b30fc99139445f51e6ab"
    [] OTHER -> "?" \o c

hash(c) == "sha256:" \o Sha256Hex(c)

\* -------------------------------------------------------------------- diff
\* String.prototype.split("\n") on the contents of the model
split(c) ==
  CASE c = "" -> <<"">>
    [] c = "a" -> <<"a">>
    [] c = "restore" -> <<"restore">>
    [] OTHER -> <<c>>

Max(a, b) == IF a >= b THEN a ELSE b

\* the loop of computeDiff leaving only once the summary is longer than the
\* cap
RECURSIVE DiffLoop_BreakPastCap(_, _, _, _, _, _)
DiffLoop_BreakPastCap(oldLines, newLines, i, added, removed, diffLines) ==
  IF i > Max(Len(oldLines), Len(newLines))
  THEN [linesAdded |-> added, linesRemoved |-> removed, summary |-> diffLines]
  ELSE
    LET hasO == i <= Len(oldLines)
        hasN == i <= Len(newLines)
        step ==
          IF ~hasO /\ hasN
          THEN [a |-> added + 1, r |-> removed,
                d |-> Append(diffLines, "+ " \o newLines[i])]
          ELSE IF hasO /\ ~hasN
          THEN [a |-> added, r |-> removed + 1,
                d |-> Append(diffLines, "- " \o oldLines[i])]
          ELSE IF hasO /\ hasN /\ oldLines[i] # newLines[i]
          THEN [a |-> added + 1, r |-> removed + 1,
                d |-> diffLines \o <<"- " \o oldLines[i], "+ " \o newLines[i]>>]
          ELSE [a |-> added, r |-> removed, d |-> diffLines]
    IN IF Len(step.d) > MAX_DIFF_LINES
       THEN [linesAdded |-> step.a, linesRemoved |-> step.r, summary |-> step.d]
       ELSE DiffLoop_BreakPastCap(oldLines, newLines, i + 1, step.a, step.r,
                                  step.d)

\* the loop of computeDiff counting a changed line as an addition only
RECURSIVE DiffLoop_ChangedCountsOnce(_, _, _, _, _, _)
DiffLoop_ChangedCountsOnce(oldLines, newLines, i, added, removed, diffLines) ==
  IF i > Max(Len(oldLines), Len(newLines))
  THEN [linesAdded |-> added, linesRemoved |-> removed, summary |-> diffLines]
  ELSE
    LET hasO == i <= Len(oldLines)
        hasN == i <= Len(newLines)
        step ==
          IF ~hasO /\ hasN
          THEN [a |-> added + 1, r |-> removed,
                d |-> Append(diffLines, "+ " \o newLines[i])]
          ELSE IF hasO /\ ~hasN
          THEN [a |-> added, r |-> removed + 1,
                d |-> Append(diffLines, "- " \o oldLines[i])]
          ELSE IF hasO /\ hasN /\ oldLines[i] # newLines[i]
          THEN [a |-> added + 1, r |-> removed,
                d |-> diffLines \o <<"- " \o oldLines[i], "+ " \o newLines[i]>>]
          ELSE [a |-> added, r |-> removed, d |-> diffLines]
    IN IF Len(step.d) >= MAX_DIFF_LINES
       THEN [linesAdded |-> step.a, linesRemoved |-> step.r, summary |-> step.d]
       ELSE DiffLoop_ChangedCountsOnce(oldLines, newLines, i + 1, step.a, step.r, step.d)

\* the loop of computeDiff without the branch for lines only the old text has
RECURSIVE DiffLoop_NoRemovedTail(_, _, _, _, _, _)
DiffLoop_NoRemovedTail(oldLines, newLines, i, added, removed, diffLines) ==
  IF i > Max(Len(oldLines), Len(newLines))
  THEN [linesAdded |-> added, linesRemoved |-> removed, summary |-> diffLines]
  ELSE
    LET hasO == i <= Len(oldLines)
        hasN == i <= Len(newLines)
        step ==
          IF ~hasO /\ hasN
          THEN [a |-> added + 1, r |-> removed,
                d |-> Append(diffLines, "+ " \o newLines[i])]
          ELSE IF hasO /\ hasN /\ oldLines[i] # newLines[i]
          THEN [a |-> added + 1, r |-> removed + 1,
                d |-> diffLines \o <<"- " \o oldLines[i], "+ " \o newLines[i]>>]
          ELSE [a |-> added, r |-> removed, d |-> diffLines]
    IN IF Len(step.d) >= MAX_DIFF_LINES
       THEN [linesAdded |-> step.a, linesRemoved |-> step.r, summary |-> step.d]
       ELSE DiffLoop_NoRemovedTail(oldLines, newLines, i + 1, step.a, step.r, step.d)

RECURSIVE DiffLoop(_, _, _, _, _, _)
DiffLoop(oldLines, newLines, i, added, removed, diffLines) ==
  IF i > Max(Len(oldLines), Len(newLines))
  THEN [linesAdded |-> added, linesRemoved |-> removed, summary |-> diffLines]
  ELSE
    LET hasO == i <= Len(oldLines)
        hasN == i <= Len(newLines)
        step ==
          IF ~hasO /\ hasN
          THEN [a |-> added + 1, r |-> removed,
                d |-> Append(diffLines, "+ " \o newLines[i])]
          ELSE IF hasO /\ ~hasN
          THEN [a |-> added, r |-> removed + 1,
                d |-> Append(diffLines, "- " \o oldLines[i])]
          ELSE IF hasO /\ hasN /\ oldLines[i] # newLines[i]
          THEN [a |-> added + 1, r |-> removed + 1,
                d |-> diffLines \o <<"- " \o oldLines[i], "+ " \o newLines[i]>>]
          ELSE [a |-> added, r |-> removed, d |-> diffLines]
    IN IF Len(step.d) >= MAX_DIFF_LINES
       THEN [linesAdded |-> step.a, linesRemoved |-> step.r, summary |-> step.d]
       ELSE DiffLoop(oldLines, newLines, i + 1, step.a, step.r, step.d)

\* summary is the sequence of lines that the code joins with "\n"
computeDiffLines(oldLines, newLines) ==
  DiffLoop(oldLines, newLines, 1, 0, 0, <<>>)

computeDiff(oldText, newText) ==
  computeDiffLines(split(oldText), split(newText))

\* ------------------------------------------------------------ history files
Absent == [kind |-> "absent", filePath |-> "", entries |-> <<>>, bytes |-> 0]

HistoryFile(filePath, entries) ==
  [kind |-> "history", filePath |-> filePath, entries |-> entries, bytes |-> 0]

\* bytes that parse as JSON, to a value without an entries array
NoEntriesFile(filePath) ==
  [kind |-> "noentries", filePath |-> filePath, entries |-> <<>>, bytes |-> 0]

\* bytes that JSON.parse rejects
Garbage(b) == [kind |-> "garbage", filePath |-> "", entries |-> <<>>, bytes |-> b]

Exists(f) == f.kind # "absent"
Parsable(f) == f.kind \in {"history", "noentries"}
HasEntriesArray(f) == f.kind = "history"

\* ------------------------------------------------------------------- entry
\* an entry whose snapshot is the content before the edit
NewEntry_SnapshotOfOld(oldContent, newContent, source, versionTag, id, now) ==
  LET diff == computeDiff(oldContent, newContent)
  IN [id |-> id,
      timestamp |-> now,
      source |-> source,
      contentHashBefore |-> hash(oldContent),
      contentHashAfter |-> hash(newContent),
      contentSnapshot |-> oldContent,
      linesAdded |-> diff.linesAdded,
      linesRemoved |-> diff.linesRemoved,
      diffSummary |-> diff.summary,
      versionTag |-> versionTag]

NewEntry_SwappedHashes(oldContent, newContent, source, versionTag, id, now) ==
  LET diff == computeDiff(oldContent, newContent)
  IN [id |-> id,
      timestamp |-> now,
      source |-> source,
      contentHashBefore |-> hash(newContent),
      contentHashAfter |-> hash(oldContent),
      contentSnapshot |-> newContent,
      linesAdded |-> diff.linesAdded,
      linesRemoved |-> diff.linesRemoved,
      diffSummary |-> diff.summary,
      versionTag |-> versionTag]

NewEntry(oldContent, newContent, source, versionTag, id, now) ==
  LET diff == computeDiff(oldContent, newContent)
  IN [id |-> id,
      timestamp |-> now,
      source |-> source,
      contentHashBefore |-> hash(oldContent),
      contentHashAfter |-> hash(newContent),
      contentSnapshot |-> newContent,
      linesAdded |-> diff.linesAdded,
      linesRemoved |-> diff.linesRemoved,
      diffSummary |-> diff.summary,
      versionTag |-> versionTag]

\* Array.prototype.slice(-n)
SliceLast(s, n) ==
  IF Len(s) <= n THEN s ELSE SubSeq(s, Len(s) - n + 1, Len(s))

Retain_KeepOldest(entries) ==
  IF Len(entries) > MAX_ENTRIES_PER_FILE
  THEN SubSeq(entries, 1, MAX_ENTRIES_PER_FILE)
  ELSE entries

Retain_NoPrune(entries) == entries

\* slice(MAX) in place of slice(-MAX)
Retain_SliceFrom(entries) ==
  IF Len(entries) > MAX_ENTRIES_PER_FILE
  THEN SubSeq(entries, MAX_ENTRIES_PER_FILE + 1, Len(entries))
  ELSE entries

\* retention policy
Retain(entries) ==
  IF Len(entries) > MAX_ENTRIES_PER_FILE
  THEN SliceLast(entries, MAX_ENTRIES_PER_FILE)
  ELSE entries

IsNoOp_Never(oldContent, newContent) == FALSE

\* no-op detection
IsNoOp(oldContent, newContent) == oldContent = newContent

\* ------------------------------------------------------------------ the disk
\* d.files: the files of the history root, d.dirs: its directories,
\* d.nextBlob: number of the next unparsable byte string to appear
IoOk == [mkdir |-> "ok", rename |-> "ok", write |-> "ok"]

\* denied: the open fails; partial: the write fails after the truncation;
\* crash: the process dies between the truncation and the end of the write
WriteOutcomes == {"ok", "denied", "partial", "crash"}

\* fail: mkdirSync creates nothing; partial: the recursive mkdirSync creates
\* the history root and fails on the directory below it
MkdirOutcomes == {"ok", "fail", "partial"}

IoSet ==
  [mkdir : MkdirOutcomes, rename : {"ok", "fail"}, write : WriteOutcomes]

MakesBlob(io) == io.write \in {"partial", "crash"}

\* the outcome of one engine call
Outcome(d, raised, crashed, warned, hit) ==
  [disk |-> d, raised |-> raised, crashed |-> crashed, warned |-> warned,
   hit |-> hit]

ensureDir(d, dir, io) ==
  IF dir \in d.dirs
  THEN [disk |-> d, raised |-> FALSE]
  ELSE IF io.mkdir = "ok"
       THEN [disk |-> [d EXCEPT !.dirs = @ \cup {HistoryRoot, dir}],
             raised |-> FALSE]
       ELSE IF io.mkdir = "partial"
       THEN [disk |-> [d EXCEPT !.dirs = @ \cup {HistoryRoot}],
             raised |-> TRUE]
       ELSE [disk |-> d, raised |-> TRUE]

readHistory_Throw(d, historyPath, filePath, io) ==
  LET f == d.files[historyPath]
  IN IF ~Exists(f)
     THEN [disk |-> d, history |-> HistoryFile(filePath, <<>>),
           warned |-> FALSE, hit |-> 0, raised |-> FALSE]
     ELSE IF Parsable(f)
     THEN [disk |-> d, history |-> f, warned |-> FALSE, hit |-> 0,
           raised |-> FALSE]
     ELSE [disk |-> d, history |-> HistoryFile(filePath, <<>>),
           warned |-> FALSE, hit |-> f.bytes, raised |-> TRUE]

\* hit: the blob number of the unparsable record met, 0 when none
readHistory(d, historyPath, filePath, io) ==
  LET f == d.files[historyPath]
  IN IF ~Exists(f)
     THEN [disk |-> d, history |-> HistoryFile(filePath, <<>>),
           warned |-> FALSE, hit |-> 0, raised |-> FALSE]
     ELSE IF Parsable(f)
     THEN [disk |-> d, history |-> f, warned |-> FALSE, hit |-> 0,
           raised |-> FALSE]
     ELSE
       LET moved ==
             IF io.rename = "ok"
             THEN [d EXCEPT !.files[BackupPath(historyPath)] = f,
                            !.files[historyPath] = Absent]
             ELSE d
       IN [disk |-> moved, history |-> HistoryFile(filePath, <<>>),
           warned |-> TRUE, hit |-> f.bytes, raised |-> FALSE]

\* ------------------------------------------------------------------- JSON
\* The text JSON.stringify(history, null, 2) writes, as the members of each
\* entry object in the order of its keys.  A member holds the JSON value null
\* or a string or number; versionTag is the one field that can be null.
EntryKeys ==
  <<"id", "timestamp", "source", "contentHashBefore", "contentHashAfter",
    "contentSnapshot", "linesAdded", "linesRemoved", "diffSummary",
    "versionTag">>

JsonNull == [t |-> "null", v |-> NoTag]
JsonValue(v) == [t |-> "value", v |-> v]

\* JSON.stringify that leaves out the members whose value is null, as it
\* does for undefined
stringifyEntry_DropsNull(e) ==
  LET keys == SelectSeq(EntryKeys,
                        LAMBDA k : ~(k = "versionTag" /\ e.versionTag = NoTag))
  IN [i \in 1..Len(keys) |-> [name |-> keys[i], value |-> JsonValue(e[keys[i]])]]

stringifyEntry(e) ==
  [i \in 1..Len(EntryKeys) |->
     [name |-> EntryKeys[i],
      value |-> IF EntryKeys[i] = "versionTag" /\ e.versionTag = NoTag
                THEN JsonNull
                ELSE JsonValue(e[EntryKeys[i]])]]

parseEntry(members) ==
  [k \in {members[i].name : i \in 1..Len(members)} |->
     LET m == members[CHOOSE i \in 1..Len(members) : members[i].name = k]
     IN IF m.value.t = "null" THEN NoTag ELSE m.value.v]

JSONstringify(history) ==
  [filePath |-> history.filePath,
   entries |-> [i \in 1..Len(history.entries) |->
                  stringifyEntry(history.entries[i])]]

JSONparse(text) ==
  HistoryFile(text.filePath,
              [i \in 1..Len(text.entries) |-> parseEntry(text.entries[i])])

\* fs.writeFileSync truncates the file and then writes it
writeHistory(d, historyPath, history, io) ==
  CASE io.write = "ok" ->
         \* the file holds the text; files keeps what a reader parses it to
         [disk |-> [d EXCEPT !.files[historyPath] =
                       JSONparse(JSONstringify(history))],
          raised |-> FALSE, crashed |-> FALSE]
    [] io.write = "denied" ->
         [disk |-> d, raised |-> TRUE, crashed |-> FALSE]
    [] io.write = "partial" ->
         [disk |-> [d EXCEPT !.files[historyPath] = Garbage(d.nextBlob),
                             !.nextBlob = @ + 1],
          raised |-> TRUE, crashed |-> FALSE]
    [] OTHER ->
         [disk |-> [d EXCEPT !.files[historyPath] = Garbage(d.nextBlob),
                             !.nextBlob = @ + 1],
          raised |-> FALSE, crashed |-> TRUE]

logEdit(d, filePath, oldContent, newContent, source, versionTag, id, now, io) ==
  IF IsNoOp(oldContent, newContent)
  THEN Outcome(d, FALSE, FALSE, FALSE, 0)
  ELSE
    LET historyPath == getHistoryFilePath(filePath)
        e == ensureDir(d, RecordDir(filePath), io)
    IN IF e.raised
       THEN Outcome(e.disk, TRUE, FALSE, FALSE, 0)
       ELSE
         LET r == readHistory(e.disk, historyPath, filePath, io)
         IN IF r.raised
            THEN Outcome(r.disk, TRUE, FALSE, r.warned, r.hit)
            ELSE IF ~HasEntriesArray(r.history)
            THEN \* history.entries.push on a value that is no array
                 Outcome(r.disk, TRUE, FALSE, r.warned, r.hit)
            ELSE
              LET entry == NewEntry(oldContent, newContent, source,
                                    versionTag, id, now)
                  kept == Retain(Append(r.history.entries, entry))
                  w == writeHistory(r.disk, historyPath,
                                    HistoryFile(r.history.filePath, kept), io)
              IN Outcome(w.disk, w.raised, w.crashed, r.warned, r.hit)

\* getFileHistory without its existence test and its try/catch: the read of a
\* missing record throws to the caller
getFileHistory_NoCatch(d, filePath) ==
  LET f == d.files[getHistoryFilePath(filePath)]
  IN IF ~Exists(f) \/ ~Parsable(f) THEN [ret |-> <<>>, raised |-> TRUE]
     ELSE IF HasEntriesArray(f) THEN [ret |-> f.entries, raised |-> FALSE]
     ELSE [ret |-> <<>>, raised |-> FALSE]

getFileHistory(d, filePath) ==
  LET f == d.files[getHistoryFilePath(filePath)]
  IN IF ~Exists(f) THEN [ret |-> <<>>, raised |-> FALSE]
     ELSE IF ~Parsable(f) THEN [ret |-> <<>>, raised |-> FALSE]
     ELSE IF HasEntriesArray(f) THEN [ret |-> f.entries, raised |-> FALSE]
     ELSE [ret |-> <<>>, raised |-> FALSE]

\* ------------------------------------------------------------------- state
VARIABLES
  files,      \* the files of the history root: HistoryFiles -> file
  dirs,       \* the directories of the history root that exist
  nextBlob,   \* number of the next unparsable byte string
  appended,   \* per artifact, every entry logEdit ever persisted, in order
  met,        \* blob numbers of the unparsable records readHistory met
  last,       \* the last call and how it ended
  nops,       \* number of calls so far
  art,        \* the artifacts under bdd_tests: Paths -> [exists, content]
  bddRoot,    \* whether the directory bdd_tests exists
  subDir,     \* whether the directory bdd_tests/sub exists
  snap,       \* the pre-generation snapshot the caller holds
  snapTaken,  \* whether the caller holds a snapshot
  currentFilePath,  \* BDDPanel.currentFilePath
  featureText,      \* BDDPanel.featureText
  restoring,  \* the restore handlers that await their artifact write
  diff,       \* one computeDiff call: its two texts, as lines, and its result
  webview,    \* the panel's page: the History button and the entries it lists
  isGenerating,     \* extension.ts: the guard of extension.generateBDD
  isRunningTests,   \* extension.ts: the guard of the test executions
  workspaceFolder,  \* whether vscode.workspace.workspaceFolders has a folder
  hasOnDidClickRun, \* whether the BDDPanel of the build has onDidClickRun
  generating, \* number of generateTests calls in flight
  running,    \* number of executeTests calls in flight
  bare,       \* how many of them extension.executeBDD started with no panel
  onRunClicked,     \* whether the panel holds a Run callback
  notice      \* the message the last command step showed

store == <<files, dirs, nextBlob>>
workspace == <<art, bddRoot, subDir>>
caller == <<snap, snapTaken>>
panel == <<currentFilePath, featureText, restoring>>
commands == <<isGenerating, isRunningTests, workspaceFolder,
              hasOnDidClickRun, generating,
              running, bare, onRunClicked, notice>>

vars == <<files, dirs, nextBlob, appended, met, last, nops, art, bddRoot,
          subDir,
          snap, snapTaken, currentFilePath, featureText, restoring, diff,
          webview, isGenerating, isRunningTests, workspaceFolder,
          hasOnDidClickRun, generating, running, bare, onRunClicked, notice>>

Null == "<null>"

\* the page that getHtml builds: History disabled, no entry listed
FreshPage == [historyEnabled |-> FALSE, shown |-> <<>>]

\* no computeDiff call under study
NoDiff ==
  [oldLines |-> <<"">>, newLines |-> <<"">>, done |-> FALSE,
   out |-> [linesAdded |-> 0, linesRemoved |-> 0, summary |-> <<>>]]
NoFile == [exists |-> FALSE, content |-> ""]
File(c) == [exists |-> TRUE, content |-> c]

Disk == [files |-> files, dirs |-> dirs, nextBlob |-> nextBlob]

EmptyDisk ==
  [files |-> [h \in HistoryFiles |-> Absent], dirs |-> {}, nextBlob |-> 1]

\* ioFailed: a file system call of the operation failed; raised: the
\* operation threw to its caller; crashed: the process died in it
NoCall ==
  [op |-> "none", path |-> "", old |-> "", new |-> "", ioFailed |-> FALSE,
   raised |-> FALSE, crashed |-> FALSE, warned |-> FALSE, ret |-> <<>>]

Call(op, path, old, new, ioFailed, raised, crashed, warned, ret) ==
  [op |-> op, path |-> path, old |-> old, new |-> new, ioFailed |-> ioFailed,
   raised |-> raised, crashed |-> crashed, warned |-> warned, ret |-> ret]

\* mkdirSync or writeFileSync fails (a failing renameSync is swallowed)
PersistenceFails(io) == io.mkdir # "ok" \/ io.write \in {"denied", "partial"}

\* the log an artifact's record holds, as every reader sees it
LogOf(d, p) == getFileHistory(d, p).ret

\* the disk after k content-changing logEdit calls on p that met no failure:
\* the contents alternate between "" and "a"
PrefilledEntries(k) ==
  [i \in 1..k |->
     NewEntry(IF i % 2 = 1 THEN "" ELSE "a", IF i % 2 = 1 THEN "a" ELSE "",
              "manual_edit", NoTag,
              IF i % 2 = 1 THEN "1f0e3dad" ELSE "9b2c7a10", 0)]

Prefilled(p, k) ==
  IF k = 0 THEN EmptyDisk
  ELSE [EmptyDisk EXCEPT
          !.dirs = {HistoryRoot, RecordDir(p)},
          !.files[getHistoryFilePath(p)] =
             HistoryFile(p, Retain(PrefilledEntries(k)))]

\* the guards and tasks when activate has run: nothing in flight
CommandsIdle(folder, runApi) ==
  /\ isGenerating = FALSE
  /\ isRunningTests = FALSE
  /\ workspaceFolder = folder
  /\ hasOnDidClickRun = runApi
  /\ generating = 0
  /\ running = 0
  /\ bare = 0
  /\ onRunClicked = FALSE
  /\ notice = "none"

\* artifacts, caller and panel when the extension starts
InitRest ==
  /\ art = [p \in Paths |-> File("a")]
  /\ bddRoot = TRUE
  /\ subDir = TRUE
  /\ snap = <<>>
  /\ snapTaken = FALSE
  /\ currentFilePath = Null
  /\ featureText = ""
  /\ restoring = <<>>
  /\ diff = NoDiff
  /\ webview = FreshPage
  /\ CommandsIdle(TRUE, FALSE)

Fills == {0, MAX_ENTRIES_PER_FILE - 1, MAX_ENTRIES_PER_FILE}

InitFilled(k) ==
  LET d == Prefilled("a.feature", k)
  IN /\ files = d.files
     /\ dirs = d.dirs
     /\ nextBlob = d.nextBlob
     /\ appended = [p \in Paths |-> LogOf(d, p)]
     /\ met = {}
     /\ last = NoCall
     /\ nops = 0
     /\ InitRest

Init == \E k \in Fills : InitFilled(k)

\* what one logEdit call leaves behind
Apply(out) ==
  /\ files' = out.disk.files
  /\ dirs' = out.disk.dirs
  /\ nextBlob' = out.disk.nextBlob

\* the call wrote the record it built
Persisted(out) == ~out.raised /\ ~out.crashed

SourceTags == {<<"manual_edit", NoTag>>, <<"version_snapshot", "version_1">>}

\* a failure is drawn only for a file system call that the operation makes
\* on the store d
IoAllowedOn(d, p, old, new, io) ==
  LET f == d.files[getHistoryFilePath(p)]
  IN /\ IsNoOp(old, new) => io = IoOk
     /\ io.mkdir # "ok" =>
          RecordDir(p) \notin d.dirs /\ io.rename = "ok" /\ io.write = "ok"
     /\ io.mkdir = "partial" =>
          RecordDir(p) # HistoryRoot /\ HistoryRoot \notin d.dirs
     /\ io.rename = "fail" => f.kind = "garbage"
     /\ io.write # "ok" => f.kind # "noentries"

IoAllowed(p, old, new, io) ==
  /\ IoAllowedOn(Disk, p, old, new, io)
  /\ MakesBlob(io) => nextBlob <= MaxBlobs

LogEdit(p, old, new, st, id, now, io) ==
  /\ IoAllowed(p, old, new, io)
  /\ LET out == logEdit(Disk, p, old, new, st[1], st[2], id, now, io)
         wrote == ~IsNoOp(old, new) /\ Persisted(out)
     IN /\ Apply(out)
        /\ appended' =
             IF wrote
             THEN [appended EXCEPT ![p] =
                     Append(@, NewEntry(old, new, st[1], st[2], id, now))]
             ELSE appended
        /\ met' = IF out.hit # 0 THEN met \cup {out.hit} ELSE met
        /\ last' = Call("logEdit", p, old, new, PersistenceFails(io),
                        out.raised, out.crashed, out.warned, <<>>)
  /\ nops' = nops + 1
  /\ UNCHANGED <<workspace, caller, panel, diff, webview, commands>>

\* getFileHistory reading through readHistory, which moves an unparsable
\* record to its backup
GetFileHistory_ViaReadHistory(p) ==
  /\ LET r == readHistory(Disk, getHistoryFilePath(p), p, IoOk)
     IN /\ files' = r.disk.files
        /\ last' = Call("getFileHistory", p, "", "", FALSE, FALSE, FALSE,
                        r.warned,
                        IF HasEntriesArray(r.history) THEN r.history.entries
                        ELSE <<>>)
  /\ nops' = nops + 1
  /\ UNCHANGED <<dirs, nextBlob, appended, met, workspace, caller, panel,
                 diff, webview, commands>>

GetFileHistory(p) ==
  /\ LET g == getFileHistory(Disk, p)
     IN last' = Call("getFileHistory", p, "", "", FALSE, g.raised, FALSE,
                     FALSE, g.ret)
  /\ nops' = nops + 1
  /\ UNCHANGED <<files, dirs, nextBlob, appended, met, workspace, caller, panel,
               diff, webview, commands>>

\* the environment damages a record: its bytes no longer parse
Corrupt(p) ==
  /\ nextBlob <= MaxBlobs
  /\ Exists(files[getHistoryFilePath(p)])
  /\ files' = [files EXCEPT ![getHistoryFilePath(p)] = Garbage(nextBlob)]
  /\ nextBlob' = nextBlob + 1
  /\ last' = [NoCall EXCEPT !.op = "corrupt", !.path = p]
  /\ nops' = nops + 1
  /\ UNCHANGED <<dirs, appended, met, workspace, caller, panel, diff, webview,
               commands>>

\* another writer leaves a record that parses but has no entries array
DropEntries(p) ==
  /\ Exists(files[getHistoryFilePath(p)])
  /\ files' = [files EXCEPT ![getHistoryFilePath(p)] = NoEntriesFile(p)]
  /\ last' = [NoCall EXCEPT !.op = "dropEntries", !.path = p]
  /\ nops' = nops + 1
  /\ UNCHANGED <<dirs, nextBlob, appended, met, workspace, caller, panel, diff, webview,
               commands>>

Next ==
  \/ \E p \in Paths, old \in Contents, new \in Contents, st \in SourceTags,
        id \in Ids, now \in Times, io \in IoSet :
       nops < MaxOps /\ LogEdit(p, old, new, st, id, now, io)
  \/ \E p \in Paths : nops < MaxOps /\ GetFileHistory(p)
  \/ \E p \in Paths : nops < MaxOps /\ Corrupt(p)
  \/ \E p \in Paths : nops < MaxOps /\ DropEntries(p)

Spec == Init /\ [][Next]_vars

\* ------------------------------------------------- retention, from empty
\* Content-changing logEdit calls that meet no failure, from an empty store:
\* the i-th call on a path reads the clock at i and alternates the content.
MaxAppends == 51

InitRetention ==
  /\ files = EmptyDisk.files
  /\ dirs = EmptyDisk.dirs
  /\ nextBlob = EmptyDisk.nextBlob
  /\ appended = [p \in Paths |-> <<>>]
  /\ met = {}
  /\ last = NoCall
  /\ nops = 0
  /\ InitRest

NextRetention ==
  \E p \in Paths :
    LET i == Len(appended[p]) + 1
    IN /\ i <= MaxAppends
       /\ LogEdit(p, IF i % 2 = 1 THEN "" ELSE "a",
                  IF i % 2 = 1 THEN "a" ELSE "", <<"manual_edit", NoTag>>,
                  IF i % 2 = 1 THEN "1f0e3dad" ELSE "9b2c7a10", i, IoOk)

SpecRetention == InitRetention /\ [][NextRetention]_vars

\* The filled records that Init starts from are records that logEdit calls
\* write: under SpecRetention the record of a.feature after k calls is
\* Prefilled("a.feature", k), up to the clock readings.
ZeroClock(entries) ==
  [i \in 1..Len(entries) |-> [entries[i] EXCEPT !.timestamp = 0]]

PrefilledIsReachable ==
  LET k == Len(appended["a.feature"])
      f == files[getHistoryFilePath("a.feature")]
      q == Prefilled("a.feature", k).files[getHistoryFilePath("a.feature")]
  IN /\ ZeroClock(f.entries) = q.entries
     /\ f.kind = q.kind
     /\ f.filePath = q.filePath

\* ------------------------------------------ snapshot and reconciliation
\* fs.readdirSync fixes no order: walkFiles visits the artifacts in `order`
WalkOrders == {<<"a.feature", "sub/b.feature">>, <<"sub/b.feature", "a.feature">>}

IsIn(a, p) == a[p].exists

walkFiles(a, order) == SelectSeq(order, LAMBDA p : IsIn(a, p))

\* snapshotBeforeGeneration that takes the hash before it has read the file
snapshotBeforeGeneration_HashBeforeRead(a, root, order) ==
  IF ~root THEN <<>>
  ELSE LET seen == walkFiles(a, order)
       IN [i \in 1..Len(seen) |->
             [file |-> seen[i], content |-> a[seen[i]].content,
              hash |-> hash("")]]

\* the Map, in insertion order, as a sequence of [file, hash, content]
snapshotBeforeGeneration(a, root, order) ==
  IF ~root THEN <<>>
  ELSE LET seen == walkFiles(a, order)
       IN [i \in 1..Len(seen) |->
             [file |-> seen[i], content |-> a[seen[i]].content,
              hash |-> hash(a[seen[i]].content)]]

SnapHas(pre, file) == \E i \in 1..Len(pre) : pre[i].file = file
SnapGet(pre, file) == pre[CHOOSE i \in 1..Len(pre) : pre[i].file = file]

\* GenerationCalls with the two contents of a modified file handed to logEdit
\* in the wrong order
GenerationCalls_SwappedModified(a, root, pre, order) ==
  LET seen == IF root THEN walkFiles(a, order) ELSE <<>>
      walked ==
        [i \in 1..Len(seen) |->
           LET file == seen[i]
               content == a[file].content
           IN IF ~SnapHas(pre, file)
              THEN [file |-> file, old |-> "", new |-> content, skip |-> FALSE]
              ELSE IF SnapGet(pre, file).hash # hash(content)
              THEN [file |-> file, old |-> content,
                    new |-> SnapGet(pre, file).content, skip |-> FALSE]
              ELSE [file |-> file, old |-> content, new |-> content,
                    skip |-> TRUE]]
      isSeen(file) == \E i \in 1..Len(seen) : seen[i] = file
      gone == SelectSeq(pre, LAMBDA e : ~isSeen(e.file))
      deleted ==
        [i \in 1..Len(gone) |->
           [file |-> gone[i].file, old |-> gone[i].content, new |-> "",
            skip |-> FALSE]]
  IN SelectSeq(walked, LAMBDA c : ~c.skip) \o deleted

\* GenerationCalls whose snapshot lookup never finds the walked file (a key
\* that is not the relative path): every walked file is taken for a new one
GenerationCalls_KeyMismatch(a, root, pre, order) ==
  LET seen == IF root THEN walkFiles(a, order) ELSE <<>>
      walked ==
        [i \in 1..Len(seen) |->
           [file |-> seen[i], old |-> "", new |-> a[seen[i]].content,
            skip |-> FALSE]]
      isSeen(file) == \E i \in 1..Len(seen) : seen[i] = file
      gone == SelectSeq(pre, LAMBDA e : ~isSeen(e.file))
      deleted ==
        [i \in 1..Len(gone) |->
           [file |-> gone[i].file, old |-> gone[i].content, new |-> "",
            skip |-> FALSE]]
  IN walked \o deleted

\* GenerationCalls whose second loop does not test the seen set: every
\* snapshot path is logged as deleted, the walked ones too
GenerationCalls_NoSeenTest(a, root, pre, order) ==
  LET seen == IF root THEN walkFiles(a, order) ELSE <<>>
      walked ==
        [i \in 1..Len(seen) |->
           LET file == seen[i]
               content == a[file].content
           IN IF ~SnapHas(pre, file)
              THEN [file |-> file, old |-> "", new |-> content, skip |-> FALSE]
              ELSE IF SnapGet(pre, file).hash # hash(content)
              THEN [file |-> file, old |-> SnapGet(pre, file).content,
                    new |-> content, skip |-> FALSE]
              ELSE [file |-> file, old |-> content, new |-> content,
                    skip |-> TRUE]]
      deleted ==
        [i \in 1..Len(pre) |->
           [file |-> pre[i].file, old |-> pre[i].content, new |-> "",
            skip |-> FALSE]]
  IN SelectSeq(walked, LAMBDA c : ~c.skip) \o deleted

\* GenerationCalls that returns at once when bdd_tests is missing, as the
\* snapshot does: the snapshot paths are not logged as deleted
GenerationCalls_ReturnsWithoutRoot(a, root, pre, order) ==
  IF ~root THEN <<>>
  ELSE
    LET seen == walkFiles(a, order)
        walked ==
          [i \in 1..Len(seen) |->
             LET file == seen[i]
                 content == a[file].content
             IN IF ~SnapHas(pre, file)
                THEN [file |-> file, old |-> "", new |-> content,
                      skip |-> FALSE]
                ELSE IF SnapGet(pre, file).hash # hash(content)
                THEN [file |-> file, old |-> SnapGet(pre, file).content,
                      new |-> content, skip |-> FALSE]
                ELSE [file |-> file, old |-> content, new |-> content,
                      skip |-> TRUE]]
        isSeen(file) == \E i \in 1..Len(seen) : seen[i] = file
        gone == SelectSeq(pre, LAMBDA e : ~isSeen(e.file))
        deleted ==
          [i \in 1..Len(gone) |->
             [file |-> gone[i].file, old |-> gone[i].content, new |-> "",
              skip |-> FALSE]]
    IN SelectSeq(walked, LAMBDA c : ~c.skip) \o deleted

\* the logEdit calls of logGenerationChanges, in the order it makes them;
\* skip marks a walked file that the code passes over
GenerationCalls(a, root, pre, order) ==
  LET seen == IF root THEN walkFiles(a, order) ELSE <<>>
      walked ==
        [i \in 1..Len(seen) |->
           LET file == seen[i]
               content == a[file].content
           IN IF ~SnapHas(pre, file)
              THEN [file |-> file, old |-> "", new |-> content, skip |-> FALSE]
              ELSE IF SnapGet(pre, file).hash # hash(content)
              THEN [file |-> file, old |-> SnapGet(pre, file).content,
                    new |-> content, skip |-> FALSE]
              ELSE [file |-> file, old |-> content, new |-> content,
                    skip |-> TRUE]]
      isSeen(file) == \E i \in 1..Len(seen) : seen[i] = file
      gone == SelectSeq(pre, LAMBDA e : ~isSeen(e.file))
      deleted ==
        [i \in 1..Len(gone) |->
           [file |-> gone[i].file, old |-> gone[i].content, new |-> "",
            skip |-> FALSE]]
  IN SelectSeq(walked, LAMBDA c : ~c.skip) \o deleted

\* runs calls[i..]: the first call that throws (or dies) ends the operation.
\* iof gives the outcomes of the file system calls of the logEdit call made
\* for each file.  wrote: the calls that persisted an entry, hits: the
\* unparsable records met, warned: readHistory showed its warning, called:
\* the files of the calls made, ioMet: every call made meets what iof holds
\* for it.  nowf gives the reading of the clock that the call made for each
\* file takes (new Date() in logEdit)
RECURSIVE RunCalls(_, _, _, _, _, _, _, _, _)

\* what follows the logEdit call made for calls[i], out being its outcome
AfterCall(d, calls, i, idf, nowf, iof, wrote, hits, seen, out) ==
  LET c == calls[i]
      hits2 == IF out.hit # 0 THEN hits \cup {out.hit} ELSE hits
      wrote2 == IF ~IsNoOp(c.old, c.new) /\ ~out.raised /\ ~out.crashed
                THEN Append(wrote, c) ELSE wrote
      seen2 == [warned |-> seen.warned \/ out.warned,
                called |-> seen.called \cup {c.file},
                ioMet |-> seen.ioMet /\ IoAllowedOn(d, c.file, c.old, c.new,
                                                    iof[c.file])]
  IN IF out.raised \/ out.crashed
     THEN [disk |-> out.disk, raised |-> out.raised, crashed |-> out.crashed,
           wrote |-> wrote2, hits |-> hits2, warned |-> seen2.warned,
           called |-> seen2.called, ioMet |-> seen2.ioMet]
     ELSE RunCalls(out.disk, calls, i + 1, idf, nowf, iof, wrote2, hits2,
                   seen2)

RunCalls(d, calls, i, idf, nowf, iof, wrote, hits, seen) ==
  IF i > Len(calls)
  THEN [disk |-> d, raised |-> FALSE, crashed |-> FALSE, wrote |-> wrote,
        hits |-> hits, warned |-> seen.warned, called |-> seen.called,
        ioMet |-> seen.ioMet]
  ELSE AfterCall(d, calls, i, idf, nowf, iof, wrote, hits, seen,
                 logEdit(d, calls[i].file, calls[i].old, calls[i].new,
                         "ai_generated", NoTag, idf[calls[i].file],
                         nowf[calls[i].file], iof[calls[i].file]))

logGenerationChanges(d, a, root, pre, order, idf, nowf, iof) ==
  RunCalls(d, GenerationCalls(a, root, pre, order), 1, idf, nowf, iof, <<>>, {},
           [warned |-> FALSE, called |-> {}, ioMet |-> TRUE])

SnapshotBeforeGeneration(order) ==
  /\ snap' = snapshotBeforeGeneration(art, bddRoot, order)
  /\ snapTaken' = TRUE
  /\ last' = [NoCall EXCEPT !.op = "snapshotBeforeGeneration"]
  /\ nops' = nops + 1
  /\ UNCHANGED <<store, appended, met, workspace, panel, diff, webview,
               commands>>

\* The directories of bdd_tests: the root ("") and sub
ArtifactDirs == {"", "sub"}

IsUnder(p, dir) == dir = "" \/ (dir = "sub" /\ p = "sub/b.feature")

\* the directory that holds the artifact p
DirOf(p) == IF IsUnder(p, "sub") THEN "sub" ELSE ""

DirExists(root, sub, dir) == IF dir = "" THEN root ELSE root /\ sub

\* a file exists only in a directory that exists
TreeOk(a, root, sub) ==
  /\ sub => root
  /\ \A p \in Paths : a[p].exists => DirExists(root, sub, DirOf(p))

\* the generation backend rewrites the artifact set
Rewrite(a, root, sub) ==
  /\ TreeOk(a, root, sub)
  /\ <<a, root, sub>> # <<art, bddRoot, subDir>>
  /\ art' = a
  /\ bddRoot' = root
  /\ subDir' = sub
  /\ last' = [NoCall EXCEPT !.op = "rewrite"]
  /\ nops' = nops + 1
  /\ UNCHANGED <<store, appended, met, caller, panel, diff, webview,
               commands>>

AppendAll(app, wrote, idf, nowf) ==
  [p \in Paths |->
     LET mine == SelectSeq(wrote, LAMBDA c : c.file = p)
     IN app[p] \o [i \in 1..Len(mine) |->
                     NewEntry(mine[i].old, mine[i].new, "ai_generated", NoTag,
                              idf[p], nowf[p])]]

\* the readings of the clock drawn for the logEdit calls of one
\* reconciliation: the clock may move, either way, between two calls
GenerationClock == {0, 1}

\* the outcomes drawn for the calls of the workspace operations
IoWorkspace == {IoOk, [IoOk EXCEPT !.write = "denied"]}

\* the state that a run of the operation with outcome out leaves; a failure
\* is drawn only for a file system call that the operation makes
GenerationLogged(out, idf, nowf, iof) ==
  /\ out.ioMet
  /\ \A p \in Paths \ out.called : iof[p] = IoOk
  /\ \A p \in Paths : MakesBlob(iof[p]) => nextBlob + 1 <= MaxBlobs
  /\ Apply(out)
  /\ appended' = AppendAll(appended, out.wrote, idf, nowf)
  /\ met' = met \cup out.hits
  /\ last' = Call("logGenerationChanges", "", "", "",
                  \E p \in Paths : PersistenceFails(iof[p]),
                  out.raised, out.crashed, out.warned, <<>>)

LogGenerationChanges(order, idf, nowf, iof) ==
  /\ snapTaken
  /\ GenerationLogged(logGenerationChanges(Disk, art, bddRoot, snap, order,
                                           idf, nowf, iof), idf, nowf, iof)
  /\ snap' = <<>>
  /\ snapTaken' = FALSE
  /\ nops' = nops + 1
  /\ UNCHANGED <<workspace, panel, diff, webview, commands>>

\* ------------------------------------------------------------------- panel
SetFilePath(filePath) ==
  /\ currentFilePath' = filePath
  /\ last' = [NoCall EXCEPT !.op = "setFilePath", !.path = filePath]
  /\ nops' = nops + 1
  /\ webview' = [webview EXCEPT !.historyEnabled = filePath # Null]
  /\ UNCHANGED <<store, appended, met, workspace, caller, featureText,
                 restoring, diff, commands>>

\* the old content the restore handler hands to logEdit
RestoreOld == "restore"

\* the message indexes tried on a log of n entries (message.index counts from 0)
RestoreIndexes(n) == {0, 1, n - 1, n} \cap (0..n)

\* case "restoreHistory" of the panel's message handler, up to its await:
\* the handler looks the entry up, takes its snapshot for the panel text and
\* starts the write of the artifact.  ret holds the entry.
RestoreHistory(index) ==
  LET p == currentFilePath
      entries == IF p = Null THEN <<>> ELSE getFileHistory(Disk, p).ret
  IN /\ IF p = Null \/ index + 1 > Len(entries)
        THEN /\ last' = Call("restoreHistory", p, "", "", FALSE, FALSE, FALSE,
                             FALSE, <<>>)
             /\ UNCHANGED <<featureText, restoring>>
        ELSE LET entry == entries[index + 1]
             IN /\ featureText' = entry.contentSnapshot
                /\ restoring' = Append(restoring,
                                       [uri |-> p, entry |-> entry,
                                        written |-> "pending", was |-> art[p]])
                /\ last' = Call("restoreHistory", p, "", entry.contentSnapshot,
                                FALSE, FALSE, FALSE, FALSE, <<entry>>)
     /\ nops' = nops + 1
     /\ UNCHANGED <<store, appended, met, workspace, caller, currentFilePath,
                    diff, webview, commands>>

\* removes the k-th element of a sequence
Without(s, k) == [i \in 1..(Len(s) - 1) |-> IF i < k THEN s[i] ELSE s[i + 1]]

\* vscode.workspace.fs.writeFile of the k-th pending restore settles in the
\* file system: writeFile is its outcome.  The bytes are in the artifact from
\* here on; the handler that awaits the write has not run on yet.  was: the
\* artifact as the write found it
WriteFileSettles(k, writeFile) ==
  /\ k \in 1..Len(restoring)
  /\ restoring[k].written = "pending"
  /\ LET uri == restoring[k].uri
         text == restoring[k].entry.contentSnapshot
     IN /\ IF writeFile = "fail"
           THEN UNCHANGED workspace
           ELSE /\ art' = [art EXCEPT ![uri] = File(text)]
                /\ bddRoot' = TRUE
                /\ subDir' = (subDir \/ IsUnder(uri, "sub"))
        /\ restoring' = [restoring EXCEPT ![k].written = writeFile,
                                          ![k].was = art[uri]]
        /\ last' = Call("writeFile", uri, "", text, writeFile = "fail", FALSE,
                        FALSE, FALSE, <<>>)
  /\ UNCHANGED <<store, appended, met, nops, caller, currentFilePath,
                 featureText, diff, webview, commands>>

\* the rest of the handler, run when the write it awaits has settled.  The
\* handler reads this.currentFilePath again for logEdit; path.relative throws
\* on null.  last.path is the artifact written, ret the entry restored.
RestoreWritten(k, id, now, io) ==
  /\ k \in 1..Len(restoring)
  /\ restoring[k].written # "pending"
  /\ LET uri == restoring[k].uri
         entry == restoring[k].entry
         text == entry.contentSnapshot
         p == currentFilePath
     IN IF restoring[k].written = "fail"
        THEN /\ io = IoOk
             /\ last' = Call("restoreWritten", uri, RestoreOld, text, FALSE,
                             TRUE, FALSE, FALSE, <<entry>>)
             /\ UNCHANGED <<store, appended, met>>
        ELSE IF p = Null
        THEN /\ io = IoOk
             /\ last' = Call("restoreWritten", uri, RestoreOld, text, FALSE,
                             ~IsNoOp(RestoreOld, text), FALSE, FALSE,
                             <<entry>>)
             /\ UNCHANGED <<store, appended, met>>
        ELSE
          LET out == logEdit(Disk, p, RestoreOld, text, "manual_edit", NoTag,
                             id, now, io)
              wrote == ~IsNoOp(RestoreOld, text) /\ Persisted(out)
          IN /\ IoAllowed(p, RestoreOld, text, io)
             /\ Apply(out)
             /\ appended' =
                  IF wrote
                  THEN [appended EXCEPT ![p] =
                          Append(@, NewEntry(RestoreOld, text, "manual_edit",
                                             NoTag, id, now))]
                  ELSE appended
             /\ met' = IF out.hit # 0 THEN met \cup {out.hit} ELSE met
             /\ last' = Call("restoreWritten", uri, RestoreOld, text,
                             PersistenceFails(io), out.raised, out.crashed,
                             out.warned, <<entry>>)
  /\ restoring' = Without(restoring, k)
  /\ nops' = nops + 1
  /\ UNCHANGED <<workspace, caller, currentFilePath, featureText, diff,
                 webview, commands>>

\* ------------------------------------- engine, reconciliation and restore
MaxSteps == 4

Artifacts == {NoFile} \cup {File(c) : c \in Contents}

NextWorkspace ==
  \/ \E p \in Paths, old \in Contents, new \in Contents :
       nops < MaxSteps
         /\ LogEdit(p, old, new, <<"manual_edit", NoTag>>, "1f0e3dad", 0, IoOk)
  \/ \E order \in WalkOrders : nops < MaxSteps /\ SnapshotBeforeGeneration(order)
  \/ \E a \in [Paths -> Artifacts], root \in BOOLEAN, sub \in BOOLEAN :
       nops < MaxSteps /\ Rewrite(a, root, sub)
  \/ /\ nops < MaxSteps
     /\ \E order \in WalkOrders, idf \in [Paths -> Ids],
           nowf \in [Paths -> GenerationClock],
           iof \in [Paths -> IoWorkspace] :
          LogGenerationChanges(order, idf, nowf, iof)
  \/ \E filePath \in Paths \cup {Null} : nops < MaxSteps /\ SetFilePath(filePath)
  \/ \E index \in RestoreIndexes(MAX_ENTRIES_PER_FILE) :
       nops < MaxSteps /\ RestoreHistory(index)
  \/ \E k \in 1..Len(restoring), writeFile \in {"ok", "fail"} :
       WriteFileSettles(k, writeFile)
  \/ \E k \in 1..Len(restoring), id \in Ids, io \in IoWorkspace :
       nops < MaxSteps /\ RestoreWritten(k, id, 0, io)

InitWorkspace == \E k \in {0, MAX_ENTRIES_PER_FILE} : InitFilled(k)

SpecWorkspace == InitWorkspace /\ [][NextWorkspace]_vars

\* ---------------------------------------------- restore, from an empty store
\* Edits saved from the panel and restores of the entries they logged.  The
\* saved texts include the text that the restore handler hands to logEdit
\* as the old content.
MaxRestoreSteps == 4

RestoreContents == Contents \cup {RestoreOld}

NextRestore ==
  \/ \E p \in Paths, old \in RestoreContents, new \in RestoreContents :
       nops < MaxRestoreSteps
         /\ LogEdit(p, old, new, <<"manual_edit", NoTag>>, "1f0e3dad", 0, IoOk)
  \/ \E filePath \in Paths \cup {Null} :
       nops < MaxRestoreSteps /\ SetFilePath(filePath)
  \/ \E index \in RestoreIndexes(MaxRestoreSteps) :
       nops < MaxRestoreSteps /\ RestoreHistory(index)
  \/ \E k \in 1..Len(restoring), writeFile \in {"ok", "fail"} :
       WriteFileSettles(k, writeFile)
  \/ \E k \in 1..Len(restoring), io \in IoWorkspace :
       nops < MaxRestoreSteps /\ RestoreWritten(k, "9b2c7a10", 0, io)

SpecRestore == InitRetention /\ [][NextRestore]_vars

\* ---------------------------------------- the system clock and random ids
\* Content-changing logEdit calls, each reading the system clock and drawing
\* an id.  Nothing orders two readings of new Date(): the clock of the machine
\* can be set back between two calls.  Nothing keeps two draws of
\* crypto.randomUUID().slice(0, 8) apart: the call does not look at the ids
\* the log already holds.
MaxClock == 2
MaxClockOps == 4

ClockReadings == 0..MaxClock

NextClock ==
  \E p \in Paths, now \in ClockReadings, id \in Ids :
    LET i == Len(appended[p]) + 1
    IN /\ nops < MaxClockOps
       /\ LogEdit(p, IF i % 2 = 1 THEN "" ELSE "a",
                  IF i % 2 = 1 THEN "a" ELSE "", <<"manual_edit", NoTag>>,
                  id, now, IoOk)

SpecClock == InitRetention /\ [][NextClock]_vars

\* ------------------------------------------- Feature Explorer and the page
getFeatureFiles(a, root, sub, dir, order) ==
  IF ~DirExists(root, sub, dir) THEN <<>>
  ELSE SelectSeq(walkFiles(a, order), LAMBDA p : IsUnder(p, dir))

\* Array.prototype.join
RECURSIVE join(_, _)
join(texts, sep) ==
  IF Len(texts) = 0 THEN ""
  ELSE IF Len(texts) = 1 THEN texts[1]
  ELSE texts[1] \o sep \o join(Tail(texts), sep)

NoFeaturesText == "No .feature files found."

\* treeView.onDidChangeSelection on a feature file: BDDPanel.show, whose
\* update() rebuilds the page, then setFilePath, which enables History
SelectFile(p) ==
  /\ bddRoot /\ IsIn(art, p)
  /\ featureText' = art[p].content
  /\ currentFilePath' = p
  /\ webview' = [FreshPage EXCEPT !.historyEnabled = TRUE]
  /\ last' = [NoCall EXCEPT !.op = "selectFile", !.path = p]
  /\ nops' = nops + 1
  /\ UNCHANGED <<store, appended, met, workspace, caller, restoring, diff,
                 commands>>

\* treeView.onDidChangeSelection on a directory: BDDPanel.show alone
SelectDirectory(dir, order) ==
  /\ DirExists(bddRoot, subDir, dir)
  /\ LET features == getFeatureFiles(art, bddRoot, subDir, dir, order)
         combined == join([i \in 1..Len(features) |-> art[features[i]].content],
                          "\n\n")
     IN featureText' = IF combined # "" THEN combined ELSE NoFeaturesText
  /\ webview' = FreshPage
  /\ last' = [NoCall EXCEPT !.op = "selectDirectory", !.path = dir]
  /\ nops' = nops + 1
  /\ UNCHANGED <<store, appended, met, workspace, caller, currentFilePath,
                 restoring, diff, commands>>

\* the page's input listener and case "updateText"
UpdateText(text) ==
  /\ featureText' = text
  /\ last' = [NoCall EXCEPT !.op = "updateText", !.new = text]
  /\ nops' = nops + 1
  /\ UNCHANGED <<store, appended, met, workspace, caller, currentFilePath,
                 restoring, diff, webview, commands>>

\* the History button, case "viewHistory" and renderHistory
ViewHistory ==
  /\ webview.historyEnabled
  /\ webview' =
       IF currentFilePath = Null THEN webview
       ELSE [webview EXCEPT !.shown = getFileHistory(Disk, currentFilePath).ret]
  /\ last' = [NoCall EXCEPT !.op = "viewHistory", !.path = currentFilePath]
  /\ nops' = nops + 1
  /\ UNCHANGED <<store, appended, met, workspace, caller, panel, diff,
                 commands>>

\* the Save button, case "save" and extension.saveThisFeature
SaveFeature ==
  /\ art' = IF currentFilePath # Null
                 /\ DirExists(bddRoot, subDir, DirOf(currentFilePath))
            THEN [art EXCEPT ![currentFilePath] = File(featureText)]
            ELSE art
  /\ last' = [NoCall EXCEPT !.op = "save", !.path = currentFilePath,
                            !.new = featureText]
  /\ nops' = nops + 1
  /\ UNCHANGED <<store, appended, met, bddRoot, subDir, caller, panel, diff,
                 webview, commands>>

\* the Restore button of the listed entry number index (restoreVersion) and
\* the handler of the message it posts
RestoreVersion(index) ==
  /\ index < Len(webview.shown)
  /\ RestoreHistory(index)

MaxPanelSteps == 5

NextPanel ==
  \/ \E p \in Paths : nops < MaxPanelSteps /\ SelectFile(p)
  \/ \E dir \in ArtifactDirs, order \in WalkOrders :
       nops < MaxPanelSteps /\ SelectDirectory(dir, order)
  \/ \E text \in Contents : nops < MaxPanelSteps /\ UpdateText(text)
  \/ nops < MaxPanelSteps /\ ViewHistory
  \/ nops < MaxPanelSteps /\ SaveFeature
  \/ \E index \in RestoreIndexes(MAX_ENTRIES_PER_FILE) :
       nops < MaxPanelSteps /\ RestoreVersion(index)
  \/ \E k \in 1..Len(restoring), writeFile \in {"ok", "fail"} :
       WriteFileSettles(k, writeFile)
  \/ \E k \in 1..Len(restoring), id \in Ids, io \in IoWorkspace :
       nops < MaxPanelSteps /\ RestoreWritten(k, id, 0, io)

InitPanel ==
  \E k \in {MAX_ENTRIES_PER_FILE - 1, MAX_ENTRIES_PER_FILE} : InitFilled(k)

SpecPanel == InitPanel /\ [][NextPanel]_vars

\* ------------------------------------------------------------ computeDiff
\* One computeDiff call on two texts.  A text is given by the lines that
\* split("\n") yields, which are never none: the empty text is <<"">>.
MaxDiffLen == 52

\* the old text: len lines "x"
OldText(len) == [i \in 1..len |-> "x"]

\* the new text: len lines, "y" on the lines up to k (on every second of
\* them when alt), "x" elsewhere
NewText(len, k, alt) ==
  [i \in 1..len |-> IF i <= k /\ (alt => i % 2 = 1) THEN "y" ELSE "x"]

\* where the changed lines end: nowhere, around half the cap, at the end
ChangedUpTo ==
  {0, MAX_DIFF_LINES \div 2 - 1, MAX_DIFF_LINES \div 2,
   MAX_DIFF_LINES \div 2 + 1, MaxDiffLen}

InitDiff ==
  /\ files = EmptyDisk.files
  /\ dirs = EmptyDisk.dirs
  /\ nextBlob = EmptyDisk.nextBlob
  /\ appended = [p \in Paths |-> <<>>]
  /\ met = {}
  /\ last = NoCall
  /\ nops = 0
  /\ art = [p \in Paths |-> File("a")]
  /\ bddRoot = TRUE
  /\ subDir = TRUE
  /\ snap = <<>>
  /\ snapTaken = FALSE
  /\ currentFilePath = Null
  /\ featureText = ""
  /\ restoring = <<>>
  /\ webview = FreshPage
  /\ CommandsIdle(TRUE, FALSE)
  /\ \E m \in 1..MaxDiffLen, n \in 1..MaxDiffLen, k \in ChangedUpTo,
        alt \in BOOLEAN :
       diff = [NoDiff EXCEPT !.oldLines = OldText(m),
                             !.newLines = NewText(n, k, alt)]

ComputeDiff ==
  /\ ~diff.done
  /\ diff' = [diff EXCEPT !.done = TRUE,
                          !.out = computeDiffLines(diff.oldLines,
                                                   diff.newLines)]
  /\ UNCHANGED <<store, appended, met, last, nops, workspace, caller, panel,
               webview, commands>>

NextDiff == ComputeDiff

SpecDiff == InitDiff /\ [][NextDiff]_vars

\* ---------------------------------------------------------------- commands
\* extension.generateBDD, extension.executeBDD and the panel's Run callback.
\* A command handler runs to its first await in one step; the task it started
\* ends in a later step, when generateTests or executeTests settles.
MaxCommandSteps == 5

Outcomes == {"resolved", "rejected"}

\* result.feature_text of a generation
GeneratedText == "a"

OtherVars ==
  <<store, appended, met, last, workspace, caller, currentFilePath,
    restoring, diff, webview, hasOnDidClickRun>>

\* the handler of extension.generateBDD up to the start of the progress task
GenerateBDD ==
  /\ IF isGenerating
     THEN /\ notice' = "generationAlreadyRunning"
          /\ UNCHANGED <<isGenerating, generating>>
     ELSE IF ~workspaceFolder
     THEN /\ isGenerating' = TRUE
          /\ notice' = "noWorkspace"
          /\ UNCHANGED generating
     ELSE /\ isGenerating' = TRUE
          /\ generating' = generating + 1
          /\ notice' = "generating"
  /\ nops' = nops + 1
  /\ UNCHANGED <<OtherVars, featureText, isRunningTests, workspaceFolder,
                 running, bare, onRunClicked>>

\* generateTests settles: the rest of the progress task, with its finally.
\* BDDPanel.show sets the text and rebuilds the page; panel.onDidClickRun
\* throws into the catch when the panel class of the build does not have it
GenerationEnds(outcome) ==
  /\ generating > 0
  /\ IF outcome = "resolved"
     THEN /\ featureText' = GeneratedText
          /\ webview' = FreshPage
          /\ IF hasOnDidClickRun
             THEN /\ onRunClicked' = TRUE
                  /\ notice' = "generated"
             ELSE /\ notice' = "generationError"
                  /\ UNCHANGED onRunClicked
     ELSE /\ notice' = "generationError"
          /\ UNCHANGED <<featureText, webview, onRunClicked>>
  /\ isGenerating' = FALSE
  /\ generating' = generating - 1
  /\ UNCHANGED <<store, appended, met, last, workspace, caller,
                 currentFilePath, restoring, diff, nops, isRunningTests,
                 workspaceFolder, hasOnDidClickRun, running, bare>>

\* the interpreter of generateTests cannot be started: the child process
\* emits 'error', which runPython does not listen to, and never 'close'.  The
\* promise of runPython never settles and the finally of the progress task
\* never runs
GenerationSpawnFails ==
  /\ generating > 0
  /\ generating' = generating - 1
  /\ UNCHANGED <<OtherVars, nops, featureText, isGenerating, isRunningTests,
                 workspaceFolder, running, bare, onRunClicked, notice>>

\* the Run button of the panel calls the callback that the generation
\* registered with onDidClickRun
ClickRun ==
  /\ onRunClicked
  /\ IF isRunningTests
     THEN /\ notice' = "testsAlreadyRunning"
          /\ UNCHANGED <<isRunningTests, running>>
     ELSE /\ isRunningTests' = TRUE
          /\ running' = running + 1
          /\ notice' = "runningTests"
  /\ nops' = nops + 1
  /\ UNCHANGED <<OtherVars, featureText, isGenerating, workspaceFolder,
                 generating, bare, onRunClicked>>

\* the handler of extension.executeBDD up to the start of the progress task.
\* withPanel: the command was given its panel argument (the Run message of
\* the panel gives it, the command palette does not)
ExecuteBDD(withPanel) ==
  /\ IF isRunningTests
     THEN /\ notice' = "testsAlreadyRunning"
          /\ UNCHANGED <<isRunningTests, running, bare>>
     ELSE IF ~workspaceFolder
     THEN /\ notice' = "noWorkspace"
          /\ isRunningTests' = FALSE
          /\ UNCHANGED <<running, bare>>
     ELSE /\ isRunningTests' = TRUE
          /\ running' = running + 1
          /\ bare' = IF withPanel THEN bare ELSE bare + 1
          /\ notice' = "runningTests"
  /\ nops' = nops + 1
  /\ UNCHANGED <<OtherVars, featureText, isGenerating, workspaceFolder,
                 generating, onRunClicked>>

\* executeTests settles: the rest of the progress task, with its finally.
\* noPanel: the execution is one that executeBDD started with no panel; its
\* panel.showOutput throws after the completion message and the catch shows
\* the error
ExecutionEnds(outcome, noPanel) ==
  /\ IF noPanel THEN bare > 0 ELSE running > bare
  /\ notice' = IF outcome = "resolved" /\ ~noPanel THEN "executionComplete"
               ELSE "executionError"
  /\ isRunningTests' = FALSE
  /\ running' = running - 1
  /\ bare' = IF noPanel THEN bare - 1 ELSE bare
  /\ UNCHANGED <<OtherVars, nops, featureText, isGenerating, workspaceFolder,
                 generating, onRunClicked>>

\* the interpreter of executeTests cannot be started: as for generateTests,
\* the promise never settles and isRunningTests is not assigned again
ExecutionSpawnFails(noPanel) ==
  /\ IF noPanel THEN bare > 0 ELSE running > bare
  /\ running' = running - 1
  /\ bare' = IF noPanel THEN bare - 1 ELSE bare
  /\ UNCHANGED <<OtherVars, nops, featureText, isGenerating, isRunningTests,
                 workspaceFolder, generating, onRunClicked, notice>>

GenerationSettles == \E outcome \in Outcomes : GenerationEnds(outcome)

ExecutionSettles ==
  \E outcome \in Outcomes, noPanel \in BOOLEAN : ExecutionEnds(outcome, noPanel)

\* a started backend call is over: its process closed or never started
GenerationOver == GenerationSettles \/ GenerationSpawnFails

ExecutionOver ==
  ExecutionSettles \/ \E noPanel \in BOOLEAN : ExecutionSpawnFails(noPanel)

NextCommands ==
  \/ nops < MaxCommandSteps /\ GenerateBDD
  \/ GenerationSettles
  \/ GenerationSpawnFails
  \/ nops < MaxCommandSteps /\ ClickRun
  \/ \E withPanel \in BOOLEAN : nops < MaxCommandSteps /\ ExecuteBDD(withPanel)
  \/ ExecutionSettles
  \/ \E noPanel \in BOOLEAN : ExecutionSpawnFails(noPanel)

\* the window has a workspace folder or none, and the panel class of the
\* build (the sources hold several) has onDidClickRun or not; neither changes
\* while the extension host lives
InitCommands ==
  /\ files = EmptyDisk.files
  /\ dirs = EmptyDisk.dirs
  /\ nextBlob = EmptyDisk.nextBlob
  /\ appended = [p \in Paths |-> <<>>]
  /\ met = {}
  /\ last = NoCall
  /\ nops = 0
  /\ art = [p \in Paths |-> File("a")]
  /\ bddRoot = TRUE
  /\ subDir = TRUE
  /\ snap = <<>>
  /\ snapTaken = FALSE
  /\ currentFilePath = Null
  /\ featureText = ""
  /\ restoring = <<>>
  /\ diff = NoDiff
  /\ webview = FreshPage
  /\ \E folder \in BOOLEAN, runApi \in BOOLEAN : CommandsIdle(folder, runApi)

SpecCommands == InitCommands /\ [][NextCommands]_vars

\* every started generateTests and executeTests call is over in the end: its
\* process closes, or it never starts
SpecCommandsLive ==
  /\ SpecCommands
  /\ WF_vars(GenerationOver)
  /\ WF_vars(ExecutionOver)

\* ------------------------------------------------------------------ claims
DiskNext == [files |-> files', dirs |-> dirs', nextBlob |-> nextBlob']

RecordOf(p) == files[getHistoryFilePath(p)]

\* this step is a logEdit call
LogEditStep == nops' # nops /\ last'.op = "logEdit"

\* this step is a logEdit call with differing contents that wrote its record
LogEditWrote ==
  /\ LogEditStep
  /\ last'.old # last'.new
  /\ ~last'.raised
  /\ ~last'.crashed

Last(s) == s[Len(s)]
Front(s) == SubSeq(s, 1, Len(s) - 1)

\* C1: logEdit with equal old and new content appends no entry, creates no
\* record and no directory, and rewrites no file of the history root.
C1_NoOpLeavesStoreUnchanged ==
  [][(LogEditStep /\ last'.old = last'.new) =>
       /\ files' = files
       /\ dirs' = dirs
       /\ appended' = appended
       /\ ~last'.raised]_vars

C1_Witness ==
  /\ last.op = "logEdit"
  /\ last.old = last.new
  /\ last.old = "a"
  /\ RecordOf(last.path).kind = "history"

\* C2: a logEdit call with old # new whose persistence succeeds appends
\* exactly one entry to the log of its path, with contentHashBefore =
\* hash(old) and contentHashAfter = hash(new).
C2_OneEntryWithBothHashes ==
  [][LogEditWrote =>
       LET p == last'.path
           before == LogOf(Disk, p)
           after == LogOf(DiskNext, p)
       IN /\ Len(after) >= 1
          /\ Last(after).contentHashBefore = hash(last'.old)
          /\ Last(after).contentHashAfter = hash(last'.new)
          /\ Front(after) = SliceLast(before, Len(after) - 1)
          /\ Len(after) = IF Len(before) < MAX_ENTRIES_PER_FILE
                          THEN Len(before) + 1 ELSE MAX_ENTRIES_PER_FILE
          /\ Len(appended'[p]) = Len(appended[p]) + 1]_vars

C2_Witness ==
  /\ last.op = "logEdit"
  /\ last.old = "a"
  /\ last.new = ""
  /\ ~last.raised
  /\ ~last.crashed
  /\ Len(LogOf(Disk, last.path)) >= 2
  /\ Last(LogOf(Disk, last.path)).contentHashBefore = hash("a")

\* C3: no persisted log ever holds more than MAX_ENTRIES_PER_FILE entries.
C3_LogWithinCap ==
  \A h \in HistoryFiles : Len(files[h].entries) <= MAX_ENTRIES_PER_FILE

\* a logEdit call and a restore each appended to a log that was full
C3_Witness ==
  /\ last.op = "restoreWritten"
  /\ ~last.raised
  /\ Len(LogOf(Disk, "a.feature")) = MAX_ENTRIES_PER_FILE
  /\ Len(appended["a.feature"]) = MAX_ENTRIES_PER_FILE + 2
  /\ \E i \in 1..Len(appended["a.feature"]) :
       /\ appended["a.feature"][i].source = "manual_edit"
       /\ appended["a.feature"][i].contentHashBefore = hash(RestoreOld)

\* C4: after MAX_ENTRIES_PER_FILE + 1 successful content-changing logEdit
\* calls on one artifact, its log holds exactly the MAX_ENTRIES_PER_FILE most
\* recently appended entries, in append order.
C4_KeepsNewestCap ==
  \A p \in Paths :
    Len(appended[p]) = MAX_ENTRIES_PER_FILE + 1 =>
      /\ Len(LogOf(Disk, p)) = MAX_ENTRIES_PER_FILE
      /\ LogOf(Disk, p) = SubSeq(appended[p], 2, MAX_ENTRIES_PER_FILE + 1)

C4_Witness ==
  /\ Len(appended["a.feature"]) = MAX_ENTRIES_PER_FILE + 1
  /\ RecordOf("a.feature").kind = "history"

\* C5: a successful logEdit on a parsable record leaves the previous log
\* with a prefix of its oldest entries removed and the new entry appended;
\* the surviving entries are unchanged and keep their order.
C5_AppendOnly ==
  [][(LogEditWrote /\ RecordOf(last'.path).kind = "history") =>
       LET p == last'.path
           before == files[getHistoryFilePath(p)].entries
           after == files'[getHistoryFilePath(p)].entries
       IN /\ files'[getHistoryFilePath(p)].kind = "history"
          /\ Len(after) >= 1
          /\ \E k \in 0..Len(before) :
               Front(after) = SubSeq(before, k + 1, Len(before))]_vars

C5_Witness ==
  /\ last.op = "logEdit"
  /\ ~last.raised
  /\ ~last.crashed
  /\ last.old # last.new
  /\ Len(RecordOf(last.path).entries) = MAX_ENTRIES_PER_FILE
  /\ Len(appended[last.path]) = MAX_ENTRIES_PER_FILE + 2

\* C6: when the process dies during the persistence step of logEdit, the
\* record is afterwards the complete previous record, a complete new record
\* or absent, never bytes that do not parse.
C6_CrashLeavesWholeRecord ==
  [][(LogEditStep /\ last'.crashed) =>
       \/ files'[getHistoryFilePath(last'.path)] = RecordOf(last'.path)
       \/ files'[getHistoryFilePath(last'.path)].kind \in {"absent", "history"}]_vars

\* C7: logEdit does not raise to its caller when creating the history
\* directory or writing the record fails, so the restore handler that calls
\* it runs to its end.
C7_PersistenceFailureNotRaised ==
  (last.op \in {"logEdit", "restoreWritten"} /\ last.ioFailed) => ~last.raised

\* C8: on a record whose bytes do not parse, getFileHistory returns an empty
\* log without raising, and a following content-changing logEdit (whose file
\* system calls succeed) does not raise and leaves a log of one entry.
C8_CorruptionRecovery ==
  [][/\ (nops' # nops /\ last'.op = "getFileHistory"
           /\ RecordOf(last'.path).kind = "garbage") =>
          (last'.ret = <<>> /\ ~last'.raised)
     /\ (LogEditStep /\ last'.old # last'.new
           /\ RecordOf(last'.path).kind = "garbage"
           /\ ~last'.ioFailed /\ ~last'.crashed) =>
          /\ ~last'.raised
          /\ files'[getHistoryFilePath(last'.path)].kind = "history"
          /\ Len(LogOf(DiskNext, last'.path)) = 1]_vars

C8_Witness ==
  /\ last.op = "logEdit"
  /\ last.warned
  /\ ~last.raised
  /\ ~last.crashed
  /\ Len(LogOf(Disk, last.path)) = 1
  /\ Len(appended[last.path]) > 1

\* C9: the bytes of every unparsable record that logEdit met are still
\* stored in some file of the history root.
C9_UnreadableRecordsKept ==
  \A b \in met :
    \E h \in HistoryFiles : files[h].kind = "garbage" /\ files[h].bytes = b

\* C10: a parsable record without an entries array is an empty log to every
\* reader: getFileHistory returns [] and a content-changing logEdit (whose
\* file system calls succeed) does not raise and leaves a log of one entry.
C10_MissingEntriesIsEmpty ==
  [][/\ (nops' # nops /\ last'.op = "getFileHistory"
           /\ RecordOf(last'.path).kind = "noentries") =>
          (last'.ret = <<>> /\ ~last'.raised)
     /\ (LogEditStep /\ last'.old # last'.new
           /\ RecordOf(last'.path).kind = "noentries"
           /\ ~last'.ioFailed /\ ~last'.crashed) =>
          /\ ~last'.raised
          /\ Len(LogOf(DiskNext, last'.path)) = 1]_vars

\* C11: getFileHistory on an artifact for which no record exists returns an
\* empty sequence and does not raise.
C11_MissingRecordReadsEmpty ==
  [][(nops' # nops /\ last'.op = "getFileHistory"
        /\ ~Exists(RecordOf(last'.path))) =>
       /\ last'.ret = <<>>
       /\ ~last'.raised
       /\ files' = files]_vars

\* the read of a missing record came after a logEdit wrote another record
C11_Witness ==
  /\ last.op = "getFileHistory"
  /\ ~Exists(RecordOf(last.path))
  /\ last.ret = <<>>
  /\ \E q \in Paths : Exists(RecordOf(q))

\* this step is a logGenerationChanges call
GenStep == nops' # nops /\ last'.op = "logGenerationChanges"

\* this step is a logGenerationChanges call whose file system calls succeed
GenStepOk == GenStep /\ ~last'.ioFailed

\* how the caller's snapshot and the artifact set classify p
IsModified(p) ==
  /\ SnapHas(snap, p)
  /\ bddRoot /\ art[p].exists
  /\ SnapGet(snap, p).hash # hash(art[p].content)
IsUnchanged(p) ==
  /\ SnapHas(snap, p)
  /\ bddRoot /\ art[p].exists
  /\ SnapGet(snap, p).hash = hash(art[p].content)
IsNew(p) == ~SnapHas(snap, p) /\ bddRoot /\ art[p].exists
IsDeleted(p) == SnapHas(snap, p) /\ ~(bddRoot /\ art[p].exists)
IsUnseen(p) == ~SnapHas(snap, p) /\ ~(bddRoot /\ art[p].exists)

\* this step appends exactly one entry to the log of p, from old to new
AppendsOne(p, old, new, source) ==
  LET before == LogOf(Disk, p)
      after == LogOf(DiskNext, p)
  IN /\ Len(appended'[p]) = Len(appended[p]) + 1
     /\ Len(after) = IF Len(before) < MAX_ENTRIES_PER_FILE
                     THEN Len(before) + 1 ELSE MAX_ENTRIES_PER_FILE
     /\ Front(after) = SliceLast(before, Len(after) - 1)
     /\ Last(after).contentHashBefore = hash(old)
     /\ Last(after).contentHashAfter = hash(new)
     /\ Last(after).contentSnapshot = new
     /\ Last(after).diffSummary = computeDiff(old, new).summary
     /\ Last(after).source = source

\* this step appends nothing to the log of p
AppendsNone(p) ==
  /\ appended'[p] = appended[p]
  /\ files'[getHistoryFilePath(p)] = RecordOf(p)

\* C12: for every path in both the pre-snapshot and the current artifact set
\* whose fingerprint changed, logGenerationChanges (its file system calls
\* succeeding) appends exactly one entry to that path's log, with before =
\* the snapshot content, after = the current content, source ai_generated.
C12_ModifiedLogged ==
  [][GenStepOk =>
       \A p \in Paths :
         IsModified(p) =>
           AppendsOne(p, SnapGet(snap, p).content, art[p].content,
                      "ai_generated")]_vars

\* a.feature, rewritten from "a" to an empty file, got its first entry
C12_Witness ==
  /\ last.op = "logGenerationChanges"
  /\ ~last.raised
  /\ art["a.feature"] = File("")
  /\ Len(appended["a.feature"]) = 1
  /\ Len(LogOf(Disk, "a.feature")) = 1
  /\ LogOf(Disk, "a.feature")[1].source = "ai_generated"
  /\ LogOf(Disk, "a.feature")[1].contentHashBefore = hash("a")
  /\ LogOf(Disk, "a.feature")[1].contentHashAfter = hash("")

\* C13: for every path in the current artifact set but not in the
\* pre-snapshot, logGenerationChanges (its file system calls succeeding)
\* appends exactly one creation entry to that path's log, with
\* contentHashBefore = hash("") and contentSnapshot = the file's content,
\* whatever that content is.
C13_NewPathLogged ==
  [][GenStepOk =>
       \A p \in Paths :
         IsNew(p) => AppendsOne(p, "", art[p].content, "ai_generated")]_vars

\* C14: for every path in the pre-snapshot but not in the current artifact
\* set, logGenerationChanges (its file system calls succeeding) appends
\* exactly one deletion entry to that path's log, with contentHashBefore =
\* hash(snapshot content), contentHashAfter = hash("") and an empty
\* contentSnapshot, whatever the snapshot content was.
C14_DeletedPathLogged ==
  [][GenStepOk =>
       \A p \in Paths :
         IsDeleted(p) =>
           AppendsOne(p, SnapGet(snap, p).content, "", "ai_generated")]_vars

\* C15: a path whose fingerprint is the same in the pre-snapshot and in the
\* current artifact set gets no entry; when the snapshot is the one that
\* snapshotBeforeGeneration takes of the current artifact set, the call
\* leaves every record and directory as it was and does not raise.
C15_UnchangedNotLogged ==
  [][GenStep =>
       /\ \A p \in Paths : IsUnchanged(p) => AppendsNone(p)
       /\ (\E order \in WalkOrders :
              snap = snapshotBeforeGeneration(art, bddRoot, order)) =>
            /\ files' = files
            /\ dirs' = dirs
            /\ appended' = appended
            /\ ~last'.raised]_vars

\* both artifacts hold "a" and a reconciliation that met no failure logged
\* nothing: the snapshot held both with the same content
C15_Witness ==
  /\ last.op = "logGenerationChanges"
  /\ ~last.ioFailed
  /\ ~last.raised
  /\ \A p \in Paths : art[p] = File("a") /\ appended[p] = <<>>
  /\ \A h \in HistoryFiles : ~Exists(files[h])

\* C16: one logGenerationChanges call appends at most one entry to the log
\* of any artifact path, and nothing to the log of a path that is neither in
\* the pre-snapshot nor in the current artifact set.
C16_AtMostOnePerPath ==
  [][GenStep =>
       \A p \in Paths :
         LET before == LogOf(Disk, p)
             after == LogOf(DiskNext, p)
         IN /\ Len(appended'[p]) <= Len(appended[p]) + 1
            /\ \/ AppendsNone(p)
               \/ /\ Len(after) = IF Len(before) < MAX_ENTRIES_PER_FILE
                                   THEN Len(before) + 1
                                   ELSE MAX_ENTRIES_PER_FILE
                  /\ Front(after) = SliceLast(before, Len(after) - 1)
            /\ IsUnseen(p) => AppendsNone(p)]_vars

\* one call logged a.feature once and left the log of sub/b.feature, which
\* does not exist, empty
C16_Witness ==
  /\ last.op = "logGenerationChanges"
  /\ ~last.ioFailed
  /\ Len(appended["a.feature"]) = 1
  /\ appended["a.feature"][1].source = "ai_generated"
  /\ art["a.feature"].exists
  /\ ~art["sub/b.feature"].exists
  /\ appended["sub/b.feature"] = <<>>
  /\ ~Exists(RecordOf("sub/b.feature"))

\* this step is a snapshotBeforeGeneration call
SnapshotStep == nops' # nops /\ last'.op = "snapshotBeforeGeneration"

\* C17: when bdd_tests does not exist, snapshotBeforeGeneration returns an
\* empty snapshot, and logGenerationChanges (its file system calls
\* succeeding) takes the current artifact set for empty: every snapshot path
\* is left as logEdit(path, snapshot content, "") leaves it, every other
\* record is untouched; neither operation raises.
C17_MissingRootIsEmptySet ==
  [][/\ (SnapshotStep /\ ~bddRoot) =>
          (snap' = <<>> /\ ~last'.raised)
     /\ (GenStepOk /\ ~bddRoot) =>
          /\ ~last'.raised
          /\ \A p \in Paths :
               IF SnapHas(snap, p)
               THEN /\ \E id \in Ids, now \in GenerationClock :
                         files'[getHistoryFilePath(p)] =
                           logEdit(Disk, p, SnapGet(snap, p).content, "",
                                   "ai_generated", NoTag, id, now, IoOk)
                             .disk.files[getHistoryFilePath(p)]
                    /\ SnapGet(snap, p).content # "" =>
                         AppendsOne(p, SnapGet(snap, p).content, "",
                                    "ai_generated")
               ELSE AppendsNone(p)]_vars

\* bdd_tests is gone and the reconciliation logged the deletion of
\* a.feature, which the snapshot held with content "a"
C17_Witness ==
  /\ last.op = "logGenerationChanges"
  /\ ~bddRoot
  /\ ~last.raised
  /\ ~last.ioFailed
  /\ Len(appended["a.feature"]) = 1
  /\ LogOf(Disk, "a.feature") = appended["a.feature"]
  /\ appended["a.feature"][1].source = "ai_generated"
  /\ appended["a.feature"][1].contentHashBefore = hash("a")
  /\ appended["a.feature"][1].contentHashAfter = hash("")

\* C18: snapshotBeforeGeneration is a pure read: it changes neither the
\* artifact set nor any history record, it records exactly the artifacts
\* that exist with their content, and every fingerprint it stores is the
\* hash of the content stored with it.
C18_SnapshotIsPureRead ==
  [][SnapshotStep =>
       /\ art' = art
       /\ bddRoot' = bddRoot
       /\ files' = files
       /\ dirs' = dirs
       /\ appended' = appended
       /\ \A i \in 1..Len(snap') :
            /\ snap'[i].hash = hash(snap'[i].content)
            /\ art[snap'[i].file] = File(snap'[i].content)
       /\ \A p \in Paths : SnapHas(snap', p) <=> (bddRoot /\ art[p].exists)
       /\ \A i, j \in 1..Len(snap') : snap'[i].file = snap'[j].file => i = j]_vars

\* the snapshot holds two artifacts of different content, taken while a
\* history record exists
C18_Witness ==
  /\ last.op = "snapshotBeforeGeneration"
  /\ Len(snap) = 2
  /\ snap[1].content # snap[2].content
  /\ snap[1].hash # snap[2].hash
  /\ \E p \in Paths : Len(LogOf(Disk, p)) > 0

\* the number of lines on which the two texts of the call differ
DifferingLines ==
  LET o == diff.oldLines
      n == diff.newLines
  IN Cardinality({i \in 1..Max(Len(o), Len(n)) :
                    i > Len(o) \/ i > Len(n) \/ o[i] # n[i]})

\* C19: for every pair of inputs, those differing in more than
\* MAX_DIFF_LINES lines and those mixing changed lines with a longer tail of
\* added or removed lines included, the diffSummary that computeDiff returns
\* has at most MAX_DIFF_LINES lines.
C19_SummaryWithinCap ==
  diff.done => Len(diff.out.summary) <= MAX_DIFF_LINES

\* changed lines followed by a longer tail of added lines, more than the cap
\* in all, filled the summary to the cap
C19_Witness ==
  /\ diff.done
  /\ DifferingLines > MAX_DIFF_LINES
  /\ Len(diff.out.summary) = MAX_DIFF_LINES
  /\ diff.out.linesRemoved > 0
  /\ diff.out.linesAdded > 2 * diff.out.linesRemoved

\* this step is the restoreHistory handler restoring an entry: the index
\* was valid, the artifact was written and the history write succeeded
RestoreStepOk ==
  /\ nops' # nops
  /\ last'.op = "restoreWritten"
  /\ last'.ret # <<>>
  /\ ~last'.raised
  /\ ~last'.ioFailed

\* C20: for a log of n < MAX_ENTRIES_PER_FILE entries and a valid index i,
\* restoring entry i leaves the artifact's content equal to
\* entries[i].contentSnapshot and the log with n + 1 entries, the first n
\* unchanged and the last with contentHashAfter =
\* hash(entries[i].contentSnapshot) and source manual_edit, for every snapshot
\* content.
C20_RestoreAppendsEntry ==
  [][(RestoreStepOk
        /\ Len(LogOf(Disk, last'.path)) < MAX_ENTRIES_PER_FILE) =>
       LET p == last'.path
           entry == last'.ret[1]
           before == LogOf(Disk, p)
           after == LogOf(DiskNext, p)
       IN /\ art'[p] = File(entry.contentSnapshot)
          /\ Len(after) = Len(before) + 1
          /\ SubSeq(after, 1, Len(before)) = before
          /\ Last(after).contentHashAfter = hash(entry.contentSnapshot)
          /\ Last(after).source = "manual_edit"]_vars

\* C21: the entry that a restore appends has contentHashBefore equal to the
\* hash of the content the artifact held just before the restore wrote it.
C21_RestoreBeforeIsFileContent ==
  [][(RestoreStepOk
        /\ currentFilePath \in Paths
        /\ Len(appended'[currentFilePath]) = Len(appended[currentFilePath]) + 1) =>
       \A k \in 1..Len(restoring) :
         (restoring' = Without(restoring, k) /\ restoring[k].uri = last'.path
            /\ restoring[k].entry = last'.ret[1]) =>
           Last(LogOf(DiskNext, currentFilePath)).contentHashBefore =
             hash(restoring[k].was.content)]_vars

\* C22: in every reachable state the timestamps of each artifact's log are
\* non-decreasing in sequence order, whatever the clock that logEdit reads
\* does.
C22_TimestampsNonDecreasing ==
  \A p \in Paths :
    LET log == LogOf(Disk, p)
    IN \A i, j \in 1..Len(log) :
         i < j => log[i].timestamp <= log[j].timestamp

\* C23: no two entries ever appended to the log of one artifact, still
\* present or already evicted, carry the same id.
C23_IdsNeverReused ==
  \A p \in Paths :
    \A i, j \in 1..Len(appended[p]) :
      i # j => appended[p][i].id # appended[p][j].id

\* C24: distinct artifact paths have distinct record files, and a logEdit
\* call on p leaves the record, the backup and the log of every other path
\* as they were.
C24_OtherRecordsUntouched ==
  [][LogEditStep =>
       /\ \A q1, q2 \in Paths :
            q1 # q2 =>
              /\ getHistoryFilePath(q1) # getHistoryFilePath(q2)
              /\ getHistoryFilePath(q1) # BackupPath(getHistoryFilePath(q2))
       /\ \A q \in Paths \ {last'.path} :
            /\ files'[getHistoryFilePath(q)] = files[getHistoryFilePath(q)]
            /\ files'[BackupPath(getHistoryFilePath(q))] =
                 files[BackupPath(getHistoryFilePath(q))]
            /\ LogOf(DiskNext, q) = LogOf(Disk, q)]_vars

\* sub/b.feature got its first entry while a.feature holds a full log
C24_Witness ==
  /\ last.op = "logEdit"
  /\ last.path = "sub/b.feature"
  /\ ~last.raised
  /\ ~last.crashed
  /\ Len(LogOf(Disk, "sub/b.feature")) = 1
  /\ Len(LogOf(Disk, "a.feature")) = MAX_ENTRIES_PER_FILE

\* C25: after a logEdit call with differing contents that wrote its record,
\* getFileHistory on the same path returns exactly the entries that logEdit
\* persisted, field for field and in order: the entries it kept of the log
\* it read, then the entry it built.
C25_ReadsBackWhatWasWritten ==
  [][LogEditWrote =>
       LET p == last'.path
           read == IF Parsable(RecordOf(p)) THEN LogOf(Disk, p) ELSE <<>>
           got == getFileHistory(DiskNext, p)
       IN /\ ~got.raised
          /\ Len(got.ret) >= 1
          /\ Last(got.ret) = Last(appended'[p])
          /\ Front(got.ret) = SliceLast(read, Len(got.ret) - 1)
          /\ Len(got.ret) = IF Len(read) < MAX_ENTRIES_PER_FILE
                            THEN Len(read) + 1 ELSE MAX_ENTRIES_PER_FILE]_vars

\* a version snapshot with a tag was appended to a log of one entry whose
\* versionTag is null, and both are read back
C25_Witness ==
  /\ last.op = "logEdit"
  /\ ~last.raised
  /\ ~last.crashed
  /\ Len(LogOf(Disk, last.path)) = 2
  /\ LogOf(Disk, last.path)[1].versionTag = NoTag
  /\ LogOf(Disk, last.path)[2].versionTag = "version_1"
  /\ LogOf(Disk, last.path) = appended[last.path]

\* C26: the entry a restore writes back is the entry of the listed history
\* whose Restore button was pressed, also when entries were appended to the
\* log, and the oldest evicted, after the list was shown.
C26_RestoresTheSelectedEntry ==
  [][\A index \in RestoreIndexes(MAX_ENTRIES_PER_FILE) :
       (RestoreVersion(index) /\ last'.ret # <<>>) =>
         last'.ret[1] = webview.shown[index + 1]]_vars

\* C30: selecting a directory in the Feature Explorer after a file was
\* selected clears the panel's current file path, so that the Save or the
\* Restore that follows writes no file.
C30_DirectorySelectionClearsPath ==
  [][/\ (nops' # nops /\ last'.op = "selectDirectory"
           /\ currentFilePath # Null) =>
          currentFilePath' = Null
     /\ (nops' # nops /\ last.op = "selectDirectory"
           /\ last'.op \in {"save", "restoreHistory"}) =>
          art' = art]_vars

\* the texts of the lines of one computeDiff call
DiffLineTexts ==
  {diff.oldLines[i] : i \in 1..Len(diff.oldLines)}
    \cup {diff.newLines[i] : i \in 1..Len(diff.newLines)}

\* the number of summary lines that start with mark ("+ " or "- ")
Marked(summary, mark) ==
  Cardinality({i \in 1..Len(summary) :
                 summary[i] \in {mark \o l : l \in DiffLineTexts}})

\* C27: for every pair of inputs, linesAdded is the number of "+ " summary
\* lines and linesRemoved the number of "- " summary lines, so their sum is
\* the number of summary lines and at most MAX_DIFF_LINES, also when the cap
\* ends the scan early.
C27_CountsMatchSummary ==
  diff.done =>
    /\ diff.out.linesAdded = Marked(diff.out.summary, "+ ")
    /\ diff.out.linesRemoved = Marked(diff.out.summary, "- ")
    /\ diff.out.linesAdded + diff.out.linesRemoved = Len(diff.out.summary)
    /\ diff.out.linesAdded + diff.out.linesRemoved <= MAX_DIFF_LINES

\* the cap ended a scan of changed lines early: as many added as removed
C27_Witness ==
  /\ diff.done
  /\ 2 * DifferingLines > MAX_DIFF_LINES
  /\ diff.out.linesAdded = diff.out.linesRemoved
  /\ diff.out.linesAdded + diff.out.linesRemoved = MAX_DIFF_LINES
  /\ Marked(diff.out.summary, "+ ") = diff.out.linesAdded

\* the indices at which the new text has a line that the old text has not
AddedAt ==
  {i \in 1..Len(diff.newLines) :
     i > Len(diff.oldLines) \/ diff.oldLines[i] # diff.newLines[i]}

\* the indices at which the old text has a line that the new text has not
RemovedAt ==
  {i \in 1..Len(diff.oldLines) :
     i > Len(diff.newLines) \/ diff.oldLines[i] # diff.newLines[i]}

\* C28: when the cap does not cut the scan short, computeDiff compares by
\* position: linesAdded is the number of indices where the new text has a
\* line and the old text has none or another, linesRemoved the number where
\* the old text has a line and the new text has none or another; equal lines
\* at one index count for nothing.
C28_PositionalCounts ==
  (diff.done /\ Cardinality(AddedAt) + Cardinality(RemovedAt) <= MAX_DIFF_LINES) =>
    /\ diff.out.linesAdded = Cardinality(AddedAt)
    /\ diff.out.linesRemoved = Cardinality(RemovedAt)

\* changed lines between equal ones, then a tail that only the old text has
C28_Witness ==
  /\ diff.done
  /\ Cardinality(AddedAt) + Cardinality(RemovedAt) < MAX_DIFF_LINES
  /\ diff.out.linesAdded > 1
  /\ diff.out.linesRemoved > diff.out.linesAdded
  /\ Len(diff.newLines) > 2 * diff.out.linesAdded
  /\ Len(diff.oldLines) > Len(diff.newLines)

\* C29: in every reachable state every entry of every persisted log has
\* contentHashAfter = hash(contentSnapshot): the stored snapshot is the
\* content after the edit that the entry describes.
C29_SnapshotIsHashedContent ==
  \A h \in DOMAIN files :
    HasEntriesArray(files[h]) =>
      \A i \in 1..Len(files[h].entries) :
        files[h].entries[i].contentHashAfter
          = hash(files[h].entries[i].contentSnapshot)

\* logEdit has just persisted an entry for an edit that changed the content
C29_Witness ==
  /\ last.op = "logEdit"
  /\ ~last.ioFailed
  /\ \E p \in Paths :
       LET f == files[getHistoryFilePath(p)]
       IN /\ HasEntriesArray(f)
          /\ Len(f.entries) > 0
          /\ Len(appended[p]) > 0
          /\ Last(f.entries) = Last(appended[p])
          /\ Last(f.entries).contentHashBefore # Last(f.entries).contentHashAfter
          /\ Last(f.entries).contentHashAfter
               = hash(Last(f.entries).contentSnapshot)

\* C33: getFileHistory never changes the history store: whether the record
\* of the path is missing, valid or unparsable, every record and every backup
\* is the same after the call as before it, and so are the directories.
C33_GetFileHistoryLeavesStore ==
  [][(nops' # nops /\ last'.op = "getFileHistory") =>
       /\ files' = files
       /\ dirs' = dirs
       /\ \A p \in Paths : LogOf(DiskNext, p) = LogOf(Disk, p)]_vars

\* getFileHistory has read an unparsable record: the record is still in its
\* place, no backup was made, and the record of another path is whole
C33_Witness ==
  /\ last.op = "getFileHistory"
  /\ last.ret = <<>>
  /\ RecordOf(last.path).kind = "garbage"
  /\ ~Exists(files[BackupPath(getHistoryFilePath(last.path))])
  /\ \E q \in Paths : q # last.path /\ Len(LogOf(Disk, q)) > 0

\* C31: the generation guard is always released: whenever isGenerating is
\* set, it is eventually false again, so a later extension.generateBDD is
\* accepted.
C31_GenerationGuardReleased ==
  isGenerating ~> ~isGenerating

\* this step is a request to run the tests: the Run callback or executeBDD
RunRequest ==
  nops' # nops /\ notice' \in {"testsAlreadyRunning", "runningTests", "noWorkspace"}
    /\ isGenerating' = isGenerating

\* C32: at most one executeTests call is in flight at any time: the guard
\* isRunningTests is held exactly while one is, a run request made while it is
\* held starts no executeTests call and is answered with a warning, and the
\* step that ends the execution, or finds no workspace, releases the guard.
C32_OneExecutionInFlight ==
  [][/\ running' <= 1
     /\ isRunningTests' <=> (running' = 1)
     /\ (RunRequest /\ isRunningTests) =>
          /\ running' = running
          /\ notice' = "testsAlreadyRunning"
     /\ (running' < running) => ~isRunningTests'
     /\ (RunRequest /\ notice' = "noWorkspace") => ~isRunningTests']_vars

====
